---- MODULE Spec2Model ----
(***************************************************************************)
(* A model of DrugECMOAnalyzer (src/drug_ecmo_analyzer.py): the facade     *)
(* operations analyze_field / analyze_all_fields around the external       *)
(* Gateway call ask(), and the three metadata passes                       *)
(* _extract_exact_citations, _format_references and                        *)
(* _extract_reference_details, computed character by character.            *)
(*                                                                         *)
(* Python strings are sequences of one-character strings.  A Python value  *)
(* that may be missing or of an unexpected type is a record [k, v]: k is   *)
(* "absent" (no such attribute), "none" (None), "str" (v holds the         *)
(* characters) or "obj" (a truthy object that is not a string).            *)
(***************************************************************************)
EXTENDS Integers, Sequences, FiniteSets

VARIABLES pc, op, field, idx, results, askLog, askCount, pending, response, outcome,
          exact_citation, reference, ref_details

vars == <<pc, op, field, idx, results, askLog, askCount, pending, response, outcome,
          exact_citation, reference, ref_details>>

(***************************************************************************)
(* Bounds of the model.                                                    *)
(***************************************************************************)
\* longest context list enumerated over the small snippet pool
MaxCtx == 6
\* most Gateway invocations in one behaviour
MaxAsk == 8

(***************************************************************************)
(* Program constants.                                                      *)
(***************************************************************************)
TopContexts == 5
QuoteLimit == 300
BreakFrom == 250
BreakTo == 350
MinQuoteLen == 20
MaxReferences == 5
HeuristicWindow == 100
SynthesizedLen == 80
MultipleCitationsBelow == 3

(***************************************************************************)
(* Python string primitives on sequences of characters.                    *)
(***************************************************************************)
Min(a, b) == IF a <= b THEN a ELSE b

\* F(x), with x evaluated once before F is applied to its value
Eager(x, F(_)) == CHOOSE r \in {F(v) : v \in {x}} : TRUE

Rep(c, n) == [i \in 1..n |-> c]

\* str.isspace() for the characters the model uses
IsSpace(c) == c \in {" ", "\n", "\t"}

\* s[:n] for n >= 0
Prefix(s, n) == SubSeq(s, 1, Min(n, Len(s)))

\* s[n:] for n >= 0
Suffix(s, n) == SubSeq(s, n + 1, Len(s))

\* str.strip(): leading and trailing whitespace removed
Strip(s) ==
    LET keep == {i \in 1..Len(s) : ~IsSpace(s[i])}
    IN  IF keep = {} THEN <<>>
        ELSE LET lo == CHOOSE i \in keep : \A j \in keep : i <= j
                 hi == CHOOSE i \in keep : \A j \in keep : i >= j
             IN  SubSeq(s, lo, hi)

\* str.find(c, start, end) for a single character c: the lowest 0-based
\* offset i with start <= i < min(end, len(s)) and s[i] = c, or -1
Find(s, c, start, end) ==
    LET hits == {i \in start..(Min(end, Len(s)) - 1) : s[i + 1] = c}
    IN  IF hits = {} THEN -1
        ELSE CHOOSE i \in hits : \A j \in hits : i <= j

\* str.startswith(p)
StartsWith(s, p) == Len(s) >= Len(p) /\ SubSeq(s, 1, Len(p)) = p

\* p in s
Contains(s, p) ==
    \E i \in 0..(Len(s) - Len(p)) : SubSeq(s, i + 1, i + Len(p)) = p

\* the lines of s from the 0-based offset from on
RECURSIVE SplitFrom(_, _)
SplitFrom(s, from) ==
    Eager(Find(s, "\n", from, Len(s)),
          LAMBDA nl : IF nl = -1 THEN <<SubSeq(s, from + 1, Len(s))>>
                      ELSE <<SubSeq(s, from + 1, nl)>> \o SplitFrom(s, nl + 1))

\* str.split('\n')
SplitLines(s) == Eager(s, LAMBDA t : SplitFrom(t, 0))

\* str.split(':', 1)[1] for a string that contains a colon
AfterFirstColon(s) == Suffix(s, Find(s, ":", 0, Len(s)) + 1)


UpperCase == <<"A", "B", "C", "D", "E", "F", "G", "H", "I", "J", "K", "L", "M",
               "N", "O", "P", "Q", "R", "S", "T", "U", "V", "W", "X", "Y", "Z">>

LowerCase == <<"a", "b", "c", "d", "e", "f", "g", "h", "i", "j", "k", "l", "m",
               "n", "o", "p", "q", "r", "s", "t", "u", "v", "w", "x", "y", "z">>

LowerChar(c) ==
    IF \E i \in 1..Len(UpperCase) : UpperCase[i] = c
    THEN LowerCase[CHOOSE i \in 1..Len(UpperCase) : UpperCase[i] = c]
    ELSE c

\* str.lower()
Lower(s) == [i \in 1..Len(s) |-> LowerChar(s[i])]

(***************************************************************************)
(* Python values and attribute access.                                     *)
(***************************************************************************)
Absent == [k |-> "absent", v |-> <<>>]

PyNone == [k |-> "none", v |-> <<>>]

PyObj == [k |-> "obj", v |-> <<>>]

PyStr(s) == [k |-> "str", v |-> s]

\* hasattr(x, name), given the value x.name
HasAttr(a) == a.k # "absent"

\* bool(a) for a value that is present
Truthy(a) == a.k = "obj" \/ (a.k = "str" /\ a.v # <<>>)

\* the result of a try block: a value, or an exception raised inside it
Ok(val) == [exc |-> FALSE, val |-> val]

Raised == [exc |-> TRUE, val |-> <<>>]

(***************************************************************************)
(* The string literals of the source, as sequences of characters.         *)
(***************************************************************************)
S_References ==
    <<"R", "e", "f", "e", "r", "e", "n", "c", "e", "s">>

S_EtAl ==
    <<"e", "t", " ", "a", "l", ".">>

S_Twenty ==
    <<"2", "0">>

S_Ellipsis ==
    <<".", ".", ".">>

S_ExtractedFrom ==
    <<"R", "e", "f", "e", "r", "e", "n", "c", "e", " ", "e", "x", "t", "r",
      "a", "c", "t", "e", "d", " ", "f", "r", "o", "m", ":", " ">>

S_DocKey ==
    <<"d", "o", "c", "_">>

S_ContextKey ==
    <<"c", "o", "n", "t", "e", "x", "t", "_">>

S_None ==
    <<"N", "o", "n", "e">>

S_NoQuotes ==
    <<"D", "i", "r", "e", "c", "t", " ", "q", "u", "o", "t", "e", "s", " ",
      "f", "r", "o", "m", " ", "s", "o", "u", "r", "c", "e", " ", "p", "a",
      "p", "e", "r", "s", " ", "n", "o", "t", " ", "a", "v", "a", "i", "l",
      "a", "b", "l", "e">>

S_NoReferences ==
    <<"R", "e", "f", "e", "r", "e", "n", "c", "e", "s", " ", "e", "x", "t",
      "r", "a", "c", "t", "e", "d", " ", "f", "r", "o", "m", " ", "p", "e",
      "e", "r", "-", "r", "e", "v", "i", "e", "w", "e", "d", " ", "l", "i",
      "t", "e", "r", "a", "t", "u", "r", "e">>

S_NoDetails ==
    <<"C", "l", "i", "n", "i", "c", "a", "l", " ", "r", "e", "s", "e", "a",
      "r", "c", "h", " ", "o", "n", " ", "E", "C", "M", "O", " ", "p", "h",
      "a", "r", "m", "a", "c", "o", "k", "i", "n", "e", "t", "i", "c", "s",
      ".", " ", "Q", "u", "a", "l", "i", "t", "y", ":", " ", "p", "e", "e",
      "r", "-", "r", "e", "v", "i", "e", "w", "e", "d", " ", "e", "v", "i",
      "d", "e", "n", "c", "e", ".", " ", "M", "u", "l", "t", "i", "p", "l",
      "e", " ", "s", "o", "u", "r", "c", "e", "s", " ", "a", "n", "a", "l",
      "y", "z", "e", "d", ".">>

S_On ==
    <<" ", "o", "n", " ">>

S_Quality ==
    <<".", " ", "Q", "u", "a", "l", "i", "t", "y", ":", " ">>

S_Evidence ==
    <<".", " ", "E", "v", "i", "d", "e", "n", "c", "e", ":", " ">>

S_FromSource ==
    <<" ", "f", "r", "o", "m", " ", "t", "h", "i", "s", " ", "s", "o", "u",
      "r", "c", "e", ".">>

S_MultipleCitations ==
    <<"m", "u", "l", "t", "i", "p", "l", "e", " ", "c", "i", "t", "a", "t",
      "i", "o", "n", "s">>

S_SingleCitation ==
    <<"s", "i", "n", "g", "l", "e", " ", "c", "i", "t", "a", "t", "i", "o",
      "n">>

K_randomized ==
    <<"r", "a", "n", "d", "o", "m", "i", "z", "e", "d">>

K_rct ==
    <<"r", "c", "t">>

K_prospective ==
    <<"p", "r", "o", "s", "p", "e", "c", "t", "i", "v", "e">>

K_cohort ==
    <<"c", "o", "h", "o", "r", "t">>

K_case_report ==
    <<"c", "a", "s", "e", " ", "r", "e", "p", "o", "r", "t">>

K_case_series ==
    <<"c", "a", "s", "e", " ", "s", "e", "r", "i", "e", "s">>

K_review ==
    <<"r", "e", "v", "i", "e", "w">>

K_guideline ==
    <<"g", "u", "i", "d", "e", "l", "i", "n", "e">>

K_pharmacokinetics ==
    <<"p", "h", "a", "r", "m", "a", "c", "o", "k", "i", "n", "e", "t", "i",
      "c", "s">>

K_pediatric ==
    <<"p", "e", "d", "i", "a", "t", "r", "i", "c">>

K_children ==
    <<"c", "h", "i", "l", "d", "r", "e", "n">>

K_adult ==
    <<"a", "d", "u", "l", "t">>

T_RCT ==
    <<"R", "a", "n", "d", "o", "m", "i", "z", "e", "d", " ", "c", "o", "n",
      "t", "r", "o", "l", "l", "e", "d", " ", "t", "r", "i", "a", "l">>

Q_RCT ==
    <<"h", "i", "g", "h", "-", "q", "u", "a", "l", "i", "t", "y", " ", "R",
      "C", "T">>

T_Prospective ==
    <<"P", "r", "o", "s", "p", "e", "c", "t", "i", "v", "e", " ", "o", "b",
      "s", "e", "r", "v", "a", "t", "i", "o", "n", "a", "l", " ", "s", "t",
      "u", "d", "y">>

Q_Prospective ==
    <<"m", "o", "d", "e", "r", "a", "t", "e", "-", "q", "u", "a", "l", "i",
      "t", "y", " ", "o", "b", "s", "e", "r", "v", "a", "t", "i", "o", "n",
      "a", "l", " ", "s", "t", "u", "d", "y">>

T_Case ==
    <<"C", "a", "s", "e", " ", "r", "e", "p", "o", "r", "t", "/", "s", "e",
      "r", "i", "e", "s">>

Q_Case ==
    <<"c", "a", "s", "e", "-", "b", "a", "s", "e", "d", " ", "e", "v", "i",
      "d", "e", "n", "c", "e">>

T_Review ==
    <<"L", "i", "t", "e", "r", "a", "t", "u", "r", "e", " ", "r", "e", "v",
      "i", "e", "w">>

Q_Review ==
    <<"n", "a", "r", "r", "a", "t", "i", "v", "e", " ", "r", "e", "v", "i",
      "e", "w">>

T_Guideline ==
    <<"C", "l", "i", "n", "i", "c", "a", "l", " ", "g", "u", "i", "d", "e",
      "l", "i", "n", "e">>

Q_Guideline ==
    <<"e", "x", "p", "e", "r", "t", " ", "c", "o", "n", "s", "e", "n", "s",
      "u", "s", " ", "g", "u", "i", "d", "e", "l", "i", "n", "e">>

T_PK ==
    <<"P", "h", "a", "r", "m", "a", "c", "o", "k", "i", "n", "e", "t", "i",
      "c", " ", "s", "t", "u", "d", "y">>

Q_PK ==
    <<"s", "p", "e", "c", "i", "a", "l", "i", "z", "e", "d", " ", "P", "K",
      " ", "r", "e", "s", "e", "a", "r", "c", "h">>

T_Default ==
    <<"C", "l", "i", "n", "i", "c", "a", "l", " ", "r", "e", "s", "e", "a",
      "r", "c", "h", " ", "s", "t", "u", "d", "y">>

Q_Default ==
    <<"p", "e", "e", "r", "-", "r", "e", "v", "i", "e", "w", "e", "d", " ",
      "r", "e", "s", "e", "a", "r", "c", "h">>

P_Pediatric ==
    <<"p", "e", "d", "i", "a", "t", "r", "i", "c", " ", "E", "C", "M", "O",
      " ", "p", "a", "t", "i", "e", "n", "t", "s">>

P_Adult ==
    <<"a", "d", "u", "l", "t", " ", "E", "C", "M", "O", " ", "p", "a", "t",
      "i", "e", "n", "t", "s">>

P_Default ==
    <<"E", "C", "M", "O", " ", "p", "a", "t", "i", "e", "n", "t", "s">>


(***************************************************************************)
(* The response of the Gateway, as the passes read it.                     *)
(*   response.has_session         hasattr(response, 'session')             *)
(*   response.answer              response.session.answer                  *)
(*   response.formatted_answer    response.session.formatted_answer        *)
(*   response.contexts            response.session.contexts: k is "absent",*)
(*                                "none", "obj" or "list" (v the snippets) *)
(* A snippet is [text, doc]: text is context.context, doc is context.doc   *)
(* with k "absent", "none" or "doc" (then citation and docname are its     *)
(* attributes).                                                            *)
(***************************************************************************)
NoDoc == [k |-> "absent", citation |-> Absent, docname |-> Absent]

NoneDoc == [k |-> "none", citation |-> Absent, docname |-> Absent]

Doc(citation, docname) == [k |-> "doc", citation |-> citation, docname |-> docname]

Snippet(text, doc) == [text |-> text, doc |-> doc]

CtxAbsent == [k |-> "absent", v |-> <<>>]

CtxNone == [k |-> "none", v |-> <<>>]

CtxObj == [k |-> "obj", v |-> <<>>]

CtxList(cs) == [k |-> "list", v |-> cs]

\* bool(response.session.contexts)
CtxTruthy(c) == c.k = "obj" \/ (c.k = "list" /\ c.v # <<>>)

\* a try block that ended without reaching a return statement
FellThrough == [exc |-> FALSE, ret |-> FALSE, val |-> <<>>]

Returned(val) == [exc |-> FALSE, ret |-> TRUE, val |-> val]

RaisedInside == [exc |-> TRUE, ret |-> FALSE, val |-> <<>>]

(***************************************************************************)
(* _extract_exact_citations                                                *)
(***************************************************************************)
\* Truncate with the period at the break point left out
TruncateBeforePeriod(quote) ==
    IF Len(quote) > QuoteLimit
    THEN Eager(Find(quote, ".", BreakFrom, BreakTo),
               LAMBDA break_point :
                   IF break_point # -1
                   THEN Prefix(quote, break_point)
                   ELSE Prefix(quote, QuoteLimit) \o S_Ellipsis)
    ELSE quote

\* lines 150-156: a quote longer than the limit is cut at a period near
\* the limit, or at the limit
Truncate(quote) ==
    IF Len(quote) > QuoteLimit
    THEN Eager(Find(quote, ".", BreakFrom, BreakTo),
               LAMBDA break_point :
                   IF break_point # -1
                   THEN Prefix(quote, break_point + 1)
                   ELSE Prefix(quote, QuoteLimit) \o S_Ellipsis)
    ELSE quote

\* lines 149-156: the quote taken from one snippet text
ExactQuote(text) == Eager(Strip(text), LAMBDA quote : Truncate(quote))

\* Substantial with the length compared by >= instead of >
SubstantialFromTwenty(quote) == quote # <<>> /\ Len(quote) >= MinQuoteLen

\* line 157: only substantial quotes are kept
Substantial(quote) == quote # <<>> /\ Len(quote) > MinQuoteLen

\* lines 147-158: one iteration; citations is the list so far, and the
\* result is the list after it, or the exception the iteration raises
CitationsStep(context, citations) ==
    IF HasAttr(context.text) /\ Truthy(context.text)
    THEN IF context.text.k # "str"
         THEN RaisedInside
         ELSE Eager(ExactQuote(context.text.v),
                    LAMBDA quote :
                        IF Substantial(quote)
                        THEN Returned(Append(citations, quote))
                        ELSE Returned(citations))
    ELSE Returned(citations)

\* lines 146-158: the loop over the snippets handed to it, from the i-th
RECURSIVE CitationsLoop(_, _, _)
CitationsLoop(ctxs, i, citations) ==
    IF i > Len(ctxs) THEN Returned(citations)
    ELSE Eager(CitationsStep(ctxs[i], citations),
               LAMBDA r : IF r.exc THEN RaisedInside
                          ELSE CitationsLoop(ctxs, i + 1, r.val))

\* TopFive without the slice: every snippet is scanned
AllContexts(ctxs) == ctxs

\* line 146: response.session.contexts[:5]
TopFive(ctxs) == Prefix(ctxs, TopContexts)

\* ExactCitationsBody that leaves the try block without a return when no
\* quote survived
ExactCitationsBodyNonEmpty(resp) ==
    IF ~resp.has_session THEN RaisedInside
    ELSE IF HasAttr(resp.contexts) /\ CtxTruthy(resp.contexts)
    THEN IF resp.contexts.k # "list"
         THEN RaisedInside
         ELSE Eager(CitationsLoop(TopFive(resp.contexts.v), 1, <<>>),
                    LAMBDA r : IF r.exc THEN RaisedInside
                               ELSE IF r.val = <<>> THEN FellThrough
                               ELSE Returned(Prefix(r.val, TopContexts)))
    ELSE FellThrough

\* lines 144-159: the try block
ExactCitationsBody(resp) ==
    IF ~resp.has_session THEN RaisedInside
    ELSE IF HasAttr(resp.contexts) /\ CtxTruthy(resp.contexts)
    THEN IF resp.contexts.k # "list"
         THEN RaisedInside
         ELSE Eager(CitationsLoop(TopFive(resp.contexts.v), 1, <<>>),
                    LAMBDA r : IF r.exc THEN RaisedInside
                               ELSE Returned(Prefix(r.val, TopContexts)))
    ELSE FellThrough

\* lines 141-162: try / except Exception: pass / return the fallback
_extract_exact_citations(resp) ==
    Eager(ExactCitationsBody(resp),
          LAMBDA r : IF r.exc \/ ~r.ret THEN Ok(<<S_NoQuotes>>) ELSE Ok(r.val))

(***************************************************************************)
(* _format_references                                                      *)
(***************************************************************************)
\* line 180: line.strip().startswith(('1.', '2.', '3.', '4.', '5.'))
StartsWithNumber(s) ==
    \E d \in {"1", "2", "3", "4", "5"} : StartsWith(s, <<d, ".">>)

\* CleanReference without the split at the colon
WholeLine(s) == s

\* lines 182-185: the reference kept from a numbered line
CleanReference(s) ==
    IF Contains(s, <<":">>) THEN Strip(AfterFirstColon(s)) ELSE s

\* lines 174-188: one iteration on the stripped line s; st holds
\* in_references, the references so far, and whether the loop was left
Tier1Step(s, st) ==
    IF StartsWith(s, S_References) \/ s = S_References
    THEN [st EXCEPT !.in_references = TRUE]
    ELSE IF st.in_references /\ s # <<>> /\ StartsWithNumber(s)
    THEN Eager(Append(st.references, CleanReference(s)),
               LAMBDA refs : [st EXCEPT !.references = refs,
                                        !.broke = Len(refs) >= MaxReferences])
    ELSE st

\* lines 173-188: the scan of the lines of formatted_answer, from the i-th
RECURSIVE Tier1Loop(_, _, _)
Tier1Loop(lines, i, st) ==
    IF i > Len(lines) \/ st.broke THEN st.references
    ELSE Eager(Strip(lines[i]),
               LAMBDA s : Eager(Tier1Step(s, st),
                                LAMBDA next : Tier1Loop(lines, i + 1, next)))

\* lines 169-188
Tier1(formatted_answer) ==
    Eager(SplitLines(formatted_answer),
          LAMBDA lines :
              Tier1Loop(lines, 1, [in_references |-> FALSE, references |-> <<>>,
                                   broke |-> FALSE]))

\* the decimal digit of a list length (at most 5 here)
Digit(n) == <<"0", "1", "2", "3", "4", "5", "6", "7", "8", "9">>[n + 1]

\* str(x) for the values a citation attribute takes
Str(a) == IF a.k = "str" THEN a.v ELSE S_None

\* lines 199-218: one iteration; the result holds the references and
\* processed_docs after it, or the exception the iteration raises
Tier2Step(context, references, processed_docs) ==
    LET has_doc == context.doc.k = "doc"
        citation0 == IF has_doc /\ HasAttr(context.doc.citation)
                     THEN PyStr(Str(context.doc.citation))
                     ELSE PyNone
        doc_key0 == IF has_doc
                    THEN IF HasAttr(context.doc.docname)
                         THEN context.doc.docname
                         ELSE IF Truthy(citation0) THEN citation0
                         ELSE PyStr(S_DocKey \o <<Digit(Len(references))>>)
                    ELSE PyNone
        from_text == ~Truthy(citation0) /\ HasAttr(context.text)
    IN  IF from_text /\ context.text.k # "str"
        THEN [exc |-> TRUE, refs |-> <<>>, docs |-> {}]
        ELSE LET text == Prefix(context.text.v, HeuristicWindow)
                 hit == from_text
                        /\ (Contains(text, S_EtAl) \/ Contains(text, S_Twenty))
                 citation == IF hit
                             THEN PyStr(S_ExtractedFrom
                                        \o Prefix(text, SynthesizedLen)
                                        \o S_Ellipsis)
                             ELSE citation0
                 doc_key == IF hit
                            THEN PyStr(S_ContextKey \o <<Digit(Len(references))>>)
                            ELSE doc_key0
                 add == Truthy(citation) /\ doc_key \notin processed_docs
             IN  [exc |-> FALSE,
                  refs |-> IF add THEN Append(references, citation.v)
                           ELSE references,
                  docs |-> IF add THEN processed_docs \cup {doc_key}
                           ELSE processed_docs]

\* lines 198-221: the scan of the snippets handed to it, from the i-th
RECURSIVE Tier2Loop(_, _, _, _)
Tier2Loop(ctxs, i, references, processed_docs) ==
    IF i > Len(ctxs) THEN Returned(references)
    ELSE Eager(Tier2Step(ctxs[i], references, processed_docs),
               LAMBDA r :
                   IF r.exc THEN RaisedInside
                   ELSE IF Len(r.refs) >= MaxReferences THEN Returned(r.refs)
                   ELSE Tier2Loop(ctxs, i + 1, r.refs, r.docs))

\* lines 194-223: the context-based extraction
Tier2(resp) ==
    IF HasAttr(resp.contexts) /\ CtxTruthy(resp.contexts)
    THEN IF resp.contexts.k # "list"
         THEN RaisedInside
         ELSE Tier2Loop(TopFive(resp.contexts.v), 1, <<>>, {})
    ELSE FellThrough

\* lines 167-223: the try block
FormatReferencesBody(resp) ==
    IF ~resp.has_session THEN RaisedInside
    ELSE LET fa == resp.formatted_answer
             scan == HasAttr(fa) /\ Truthy(fa)
         IN  IF scan /\ fa.k # "str" THEN RaisedInside
             ELSE Eager(IF scan THEN Tier1(fa.v) ELSE <<>>,
                        LAMBDA references :
                            IF references # <<>> THEN Returned(references)
                            ELSE Tier2(resp))

\* _format_references without its except clause
FormatReferencesNoExcept(resp) ==
    Eager(FormatReferencesBody(resp),
          LAMBDA r : IF r.exc THEN Raised
                     ELSE IF ~r.ret THEN Ok(<<S_NoReferences>>) ELSE Ok(r.val))

\* lines 164-226: try / except Exception: warn / return the fallback
_format_references(resp) ==
    Eager(FormatReferencesBody(resp),
          LAMBDA r : IF r.exc \/ ~r.ret THEN Ok(<<S_NoReferences>>) ELSE Ok(r.val))

(***************************************************************************)
(* _extract_reference_details                                              *)
(***************************************************************************)
\* lines 238-258: <<study_type, quality>>, the first matching rule wins
StudyType(c) ==
    IF Contains(c, K_randomized) \/ Contains(c, K_rct) THEN <<T_RCT, Q_RCT>>
    ELSE IF Contains(c, K_prospective) \/ Contains(c, K_cohort)
    THEN <<T_Prospective, Q_Prospective>>
    ELSE IF Contains(c, K_case_report) \/ Contains(c, K_case_series)
    THEN <<T_Case, Q_Case>>
    ELSE IF Contains(c, K_review) THEN <<T_Review, Q_Review>>
    ELSE IF Contains(c, K_guideline) THEN <<T_Guideline, Q_Guideline>>
    ELSE IF Contains(c, K_pharmacokinetics) THEN <<T_PK, Q_PK>>
    ELSE <<T_Default, Q_Default>>

\* lines 261-266
Population(c) ==
    IF Contains(c, K_pediatric) \/ Contains(c, K_children) THEN P_Pediatric
    ELSE IF Contains(c, K_adult) THEN P_Adult
    ELSE P_Default

\* line 269: i is the 0-based index of the reference
CitationsUsed(i) ==
    IF i < MultipleCitationsBelow THEN S_MultipleCitations ELSE S_SingleCitation

\* Detail without the lower-casing of the reference
DetailCaseSensitive(i, citation) ==
    Eager(StudyType(citation),
          LAMBDA st :
              st[1] \o S_On \o Population(citation) \o S_Quality
              \o st[2] \o S_Evidence \o CitationsUsed(i)
              \o S_FromSource)

\* lines 235-271: the description of the reference at 0-based index i
Detail(i, citation) ==
    Eager(Lower(citation),
          LAMBDA citation_lower :
              Eager(StudyType(citation_lower),
                    LAMBDA st :
                        st[1] \o S_On \o Population(citation_lower) \o S_Quality
                        \o st[2] \o S_Evidence \o CitationsUsed(i)
                        \o S_FromSource))

\* ReferenceDetailsBody that leaves the try block without a return when the
\* reference pass gave no reference
ReferenceDetailsBodyNonEmpty(resp) ==
    Eager(_format_references(resp),
          LAMBDA citations :
              IF citations.exc THEN RaisedInside
              ELSE IF citations.val = <<>> THEN FellThrough
              ELSE Returned([j \in 1..Len(citations.val) |->
                                Detail(j - 1, citations.val[j])]))

\* lines 231-274: the try block
ReferenceDetailsBody(resp) ==
    Eager(_format_references(resp),
          LAMBDA citations :
              IF citations.exc THEN RaisedInside
              ELSE Returned([j \in 1..Len(citations.val) |->
                                Detail(j - 1, citations.val[j])]))

\* lines 228-278: try / except Exception: warn / return the fallback
_extract_reference_details(resp) ==
    Eager(ReferenceDetailsBody(resp),
          LAMBDA r : IF r.exc \/ ~r.ret THEN Ok(<<S_NoDetails>>) ELSE Ok(r.val))

(***************************************************************************)
(* Strings of the inputs.                                                  *)
(***************************************************************************)
\* snippet texts for the citation heuristic of line 212
X_EtAl ==
    <<"S", "m", "i", "t", "h", " ", "e", "t", " ", "a", "l", ".", " ", "m",
      "e", "a", "s", "u", "r", "e", "d", " ", "m", "e", "r", "o", "p", "e",
      "n", "e", "m", " ", "c", "l", "e", "a", "r", "a", "n", "c", "e">>

X_Year ==
    <<"C", "l", "e", "a", "r", "a", "n", "c", "e", " ", "w", "a", "s", " ",
      "r", "e", "p", "o", "r", "t", "e", "d", " ", "i", "n", " ", "2", "0",
      "1", "9", " ", "f", "o", "r", " ", "E", "C", "M", "O">>

X_Plain ==
    <<"M", "e", "r", "o", "p", "e", "n", "e", "m", " ", "c", "l", "e", "a",
      "r", "a", "n", "c", "e", " ", "d", "u", "r", "i", "n", "g", " ", "p",
      "e", "d", "i", "a", "t", "r", "i", "c", " ", "E", "C", "M", "O">>

\* citation strings of source documents
C_Smith ==
    <<"S", "m", "i", "t", "h", " ", "J", ".", " ", "R", "a", "n", "d", "o",
      "m", "i", "z", "e", "d", " ", "r", "e", "v", "i", "e", "w", " ", "o",
      "f", " ", "p", "e", "d", "i", "a", "t", "r", "i", "c", " ", "E", "C",
      "M", "O", " ", "d", "o", "s", "i", "n", "g", ".", " ", "2", "0", "2",
      "0">>

C_Jones ==
    <<"J", "o", "n", "e", "s", " ", "K", ".", " ", "P", "r", "o", "s", "p",
      "e", "c", "t", "i", "v", "e", " ", "c", "o", "h", "o", "r", "t", " ",
      "o", "f", " ", "a", "d", "u", "l", "t", " ", "p", "a", "t", "i", "e",
      "n", "t", "s", ".", " ", "2", "0", "1", "8">>

C_Lee ==
    <<"L", "e", "e", " ", "M", ".", " ", "P", "h", "a", "r", "m", "a", "c",
      "o", "k", "i", "n", "e", "t", "i", "c", "s", " ", "g", "u", "i", "d",
      "e", "l", "i", "n", "e", " ", "f", "o", "r", " ", "c", "h", "i", "l",
      "d", "r", "e", "n">>

C_Case ==
    <<"B", "r", "o", "w", "n", " ", "T", ".", " ", "A", " ", "C", "a", "s",
      "e", " ", "R", "e", "p", "o", "r", "t", " ", "o", "f", " ", "m", "e",
      "r", "o", "p", "e", "n", "e", "m", " ", "s", "e", "q", "u", "e", "s",
      "t", "r", "a", "t", "i", "o", "n">>

C_Plain ==
    <<"G", "a", "r", "c", "i", "a", " ", "R", ".", " ", "M", "e", "r", "o",
      "p", "e", "n", "e", "m", " ", "a", "n", "d", " ", "E", "C", "M", "O",
      " ", "c", "i", "r", "c", "u", "i", "t", "s">>

\* document names
N_Smith ==
    <<"s", "m", "i", "t", "h", "2", "0", "2", "0">>

N_Jones ==
    <<"j", "o", "n", "e", "s", "2", "0", "1", "8">>

N_Brown ==
    <<"b", "r", "o", "w", "n", "2", "0", "1", "9">>

N_Garcia ==
    <<"g", "a", "r", "c", "i", "a", "2", "0", "2", "1">>

N_Extra ==
    <<"e", "x", "t", "r", "a", "2", "0", "2", "2">>

\* formatted answers
F_Spec ==
    <<"A", "n", "s", "w", "e", "r", " ", "t", "e", "x", "t", ".", "\n",
      "\n", "R", "e", "f", "e", "r", "e", "n", "c", "e", "s", "\n", "\n",
      "1", ".", " ", "S", "m", "i", "t", "h", " ", "e", "t", " ", "a", "l",
      ":", " ", "S", "o", "m", "e", " ", "C", "i", "t", "a", "t", "i", "o",
      "n">>

F_Mixed ==
    <<"1", ".", " ", "B", "e", "f", "o", "r", "e", ":", " ", "i", "g", "n",
      "o", "r", "e", "d", "\n", "R", "e", "f", "e", "r", "e", "n", "c",
      "e", "s", ":", "\n", "1", ".", " ", "(", "s", "m", "i", "t", "h",
      "2", "0", "2", "0", " ", "p", "a", "g", "e", "s", " ", "1", "-", "2",
      ")", ":", " ", "S", "m", "i", "t", "h", " ", "J", ".", " ", "R", "a",
      "n", "d", "o", "m", "i", "z", "e", "d", " ", "t", "r", "i", "a", "l",
      ":", " ", "c", "h", "i", "l", "d", "r", "e", "n", ".", " ", "2", "0",
      "2", "0", "\n", "2", ".", " ", "N", "o", " ", "c", "o", "l", "o",
      "n", " ", "r", "e", "f", "e", "r", "e", "n", "c", "e", "\n", "6",
      ".", " ", "S", "i", "x", "t", "h", ":", " ", "s", "k", "i", "p", "p",
      "e", "d", "\n", " ", " ", "3", ".", " ", "i", "n", "d", "e", "n",
      "t", "e", "d", ":", " ", "t", "h", "i", "r", "d", " ", " ", "\n",
      "1", "0", ".", " ", "t", "e", "n", ":", " ", "s", "k", "i", "p", "p",
      "e", "d", "\n", "n", "o", "t", " ", "n", "u", "m", "b", "e", "r",
      "e", "d", "\n", "4", ".", "\n">>

F_Six ==
    <<" ", " ", "R", "e", "f", "e", "r", "e", "n", "c", "e", "s", "\n",
      "1", ".", " ", "a", ":", " ", "r", "1", "\n", "2", ".", " ", "b",
      ":", " ", "r", "2", "\n", "3", ".", " ", "r", "3", "\n", "4", ".",
      " ", "d", ":", " ", "r", "4", "\n", "5", ".", " ", "e", ":", " ",
      "r", "5", "\n", "1", ".", " ", "f", ":", " ", "r", "6">>

F_NoHeader ==
    <<"A", "n", "s", "w", "e", "r", " ", "t", "e", "x", "t", ".", "\n",
      "1", ".", " ", "S", "m", "i", "t", "h", " ", "e", "t", " ", "a", "l",
      ":", " ", "S", "o", "m", "e", " ", "C", "i", "t", "a", "t", "i", "o",
      "n">>

F_HeaderOnly ==
    <<"R", "e", "f", "e", "r", "e", "n", "c", "e", "s", "\n", "n", "o",
      "t", "h", "i", "n", "g", " ", "n", "u", "m", "b", "e", "r", "e", "d",
      " ", "h", "e", "r", "e">>

F_EmptyRef ==
    <<"R", "e", "f", "e", "r", "e", "n", "c", "e", "s", "\n", "1", ".",
      " ", "S", "m", "i", "t", "h", ":">>

F_Plain ==
    <<"M", "e", "r", "o", "p", "e", "n", "e", "m", " ", "c", "l", "e", "a",
      "r", "a", "n", "c", "e", " ", "i", "s", " ", "i", "n", "c", "r", "e",
      "a", "s", "e", "d", ".">>

\* an answer
F_Kinds ==
    <<"R", "e", "f", "e", "r", "e", "n", "c", "e", "s", "\n", "1", ".",
      " ", "R", "C", "T", " ", "i", "n", " ", "a", "d", "u", "l", "t", "s",
      "\n", "2", ".", " ", "C", "a", "s", "e", " ", "s", "e", "r", "i",
      "e", "s", " ", "a", "n", "d", " ", "r", "e", "v", "i", "e", "w",
      "\n", "3", ".", " ", "N", "a", "r", "r", "a", "t", "i", "v", "e",
      " ", "R", "e", "v", "i", "e", "w", " ", "o", "f", " ", "g", "u", "i",
      "d", "e", "l", "i", "n", "e", "s", "\n", "4", ".", " ", "P", "h",
      "a", "r", "m", "a", "c", "o", "k", "i", "n", "e", "t", "i", "c", "s",
      " ", "o", "f", " ", "m", "e", "r", "o", "p", "e", "n", "e", "m",
      "\n", "5", ".", " ", "C", "o", "h", "o", "r", "t", " ", "s", "t",
      "u", "d", "y", ":", " ", "G", "u", "i", "d", "e", "l", "i", "n", "e",
      " ", "o", "n", " ", "p", "h", "a", "r", "m", "a", "c", "o", "k", "i",
      "n", "e", "t", "i", "c", "s", " ", "i", "n", " ", "c", "h", "i", "l",
      "d", "r", "e", "n">>

A_Text ==
    <<"I", "n", "c", "r", "e", "a", "s", "e", "d", " ", "c", "l", "e", "a",
      "r", "a", "n", "c", "e", ".">>


(***************************************************************************)
(* analyze_field, from the response on (lines 113-124).                    *)
(***************************************************************************)
NoOutcome == [kind |-> "none"]

\* an exception that leaves the facade operation
Escaped(name) == [kind |-> name]

\* lines 114-124: the record, or the exception that escapes its assembly
BuildResult(resp) ==
    IF ~resp.has_session \/ ~HasAttr(resp.answer) \/ ~HasAttr(resp.formatted_answer)
    THEN Escaped("AttributeError")
    ELSE Eager(<<_extract_exact_citations(resp), _format_references(resp),
                 _extract_reference_details(resp)>>,
               LAMBDA m :
                   IF m[1].exc \/ m[2].exc \/ m[3].exc THEN Escaped("Exception")
                   ELSE [kind |-> "record",
                         answer |-> resp.answer,
                         formatted_answer |-> resp.formatted_answer,
                         metadata |-> [exact_citation |-> m[1].val,
                                       reference |-> m[2].val,
                                       ref_details |-> m[3].val]])

(***************************************************************************)
(* The field catalog (lines 27-76), in definition order.                   *)
(***************************************************************************)
analysis_fields ==
    <<"Effect on ECMO", "Final Recommendation", "Volume of distribution (Vd)",
      "Circuit sequestration", "ECMO dosage", "PK Properties -LogP",
      "PK Properties - Protein Binding">>

FieldNames == {analysis_fields[i] : i \in 1..Len(analysis_fields)}

\* field names a caller may pass: the catalog and names that are not in it
FieldArgs == FieldNames \cup {"effect on ecmo", "Half-life"}

(***************************************************************************)
(* Inputs.                                                                 *)
(***************************************************************************)
\* n characters "a" with a period at each 0-based offset of dots
Text(n, dots) == [i \in 1..n |-> IF (i - 1) \in dots THEN "." ELSE "a"]

QuoteTexts ==
    { <<>>, <<" ", "\n", " ">>,
      Text(20, {}), Text(21, {}), Text(21, {10}),
      <<" ">> \o Text(21, {}) \o <<"\n">>,
      <<"\t", " ">> \o Text(20, {}) \o <<" ">>,
      Text(300, {}), Text(300, {270}), Text(301, {}), Text(301, {10}),
      <<" ", " ">> \o Text(299, {}) \o <<" ", "\n">>,
      Text(350, {300}), Text(350, {249}), Text(350, {250}), Text(301, {300}),
      Text(400, {349}), Text(400, {350}), Text(350, {260, 300}),
      Text(350, {100, 320}), Text(350, {}),
      <<" ", " ", "\n">> \o Text(350, {300}) \o <<"\n">>,
      <<" ">> \o Text(400, {349}) }

HeuristicTexts ==
    { X_EtAl, X_Year, X_Plain,
      Text(100, {}) \o X_EtAl,
      Text(94, {}) \o S_EtAl \o Text(30, {}),
      Text(95, {}) \o S_EtAl \o Text(30, {}),
      Text(98, {}) \o S_Twenty \o Text(30, {}),
      Text(99, {}) \o S_Twenty \o Text(30, {}) }

Docs ==
    { NoDoc, NoneDoc,
      Doc(PyStr(C_Smith), PyStr(N_Smith)),
      Doc(PyStr(C_Jones), PyStr(N_Jones)),
      Doc(PyStr(C_Lee), Absent),
      Doc(PyStr(C_Case), PyStr(N_Smith)),
      Doc(Absent, PyStr(N_Jones)),
      Doc(PyNone, Absent),
      Doc(PyStr(<<>>), Absent),
      Doc(PyStr(C_Plain), PyNone) }

\* snippets whose text decides the quote; no source document
QuotePool == {Snippet(PyStr(t), NoDoc) : t \in QuoteTexts}

\* snippets whose text has an unexpected shape
OddPool == {Snippet(t, d) : t \in {Absent, PyNone, PyObj},
                            d \in {NoDoc, Doc(PyStr(C_Smith), PyStr(N_Smith))}}

\* snippets whose document and text decide the reference
DocPool == {Snippet(PyStr(t), d) : t \in HeuristicTexts, d \in Docs}

\* the snippets that are paired with each other
PairPool ==
    {Snippet(PyStr(t), d) :
        t \in {X_EtAl, X_Plain},
        d \in {NoDoc, Doc(PyStr(C_Smith), PyStr(N_Smith)),
               Doc(PyStr(C_Case), PyStr(N_Smith)), Doc(PyStr(C_Lee), Absent),
               Doc(PyStr(<<>>), Absent), Doc(Absent, PyStr(N_Jones))}}
    \cup {Snippet(PyStr(Text(350, {300})), NoDoc), Snippet(PyStr(Text(350, {})), NoDoc),
          Snippet(PyStr(Text(20, {})), NoDoc), Snippet(PyNone, NoDoc)}

\* the snippets of the long lists: one that is discarded, two that are kept
SmallPool ==
    { Snippet(PyStr(Text(20, {})), NoDoc),
      Snippet(PyStr(X_EtAl), Doc(PyStr(C_Smith), PyStr(N_Smith))),
      Snippet(PyStr(X_Plain), Doc(PyStr(C_Jones), PyStr(N_Jones))) }

\* six snippets of six different documents
SixDocs ==
    << Snippet(PyStr(X_Plain), Doc(PyStr(C_Smith), PyStr(N_Smith))),
       Snippet(PyStr(X_Plain), Doc(PyStr(C_Jones), PyStr(N_Jones))),
       Snippet(PyStr(X_Plain), Doc(PyStr(C_Lee), Absent)),
       Snippet(PyStr(X_Plain), Doc(PyStr(C_Case), PyStr(N_Brown))),
       Snippet(PyStr(X_Plain), Doc(PyStr(C_Plain), PyStr(N_Garcia))),
       Snippet(PyStr(X_EtAl), Doc(PyStr(C_Plain), PyStr(N_Extra))) >>

SeqsUpTo(S, n) == UNION {[1..m -> S] : m \in 0..n}

ContextLists ==
    {<<c>> : c \in QuotePool \cup OddPool \cup DocPool}
    \cup {<<c, d>> : c \in PairPool, d \in PairPool}
    \cup SeqsUpTo(SmallPool, MaxCtx)
    \cup {SixDocs, SubSeq(SixDocs, 2, 6)}

ContextValues == {CtxAbsent, CtxNone, CtxObj} \cup {CtxList(cs) : cs \in ContextLists}

FewContextValues ==
    { CtxAbsent, CtxNone, CtxObj, CtxList(<<>>),
      CtxList(<<Snippet(PyStr(X_Plain), NoDoc)>>),
      CtxList(<<Snippet(PyStr(X_EtAl), Doc(PyStr(C_Smith), PyStr(N_Smith))),
                Snippet(PyStr(X_Year), NoDoc)>>) }

FormattedAnswers ==
    { Absent, PyNone, PyObj, PyStr(<<>>), PyStr(F_Spec), PyStr(F_Mixed),
      PyStr(F_Six), PyStr(F_NoHeader), PyStr(F_HeaderOnly), PyStr(F_EmptyRef),
      PyStr(F_Plain), PyStr(F_Kinds) }

FewFormattedAnswers == {PyStr(F_Plain), PyStr(F_Spec)}

Session(answer, fa, ctxs) ==
    [has_session |-> TRUE, answer |-> answer, formatted_answer |-> fa, contexts |-> ctxs]

NoSession ==
    [has_session |-> FALSE, answer |-> Absent, formatted_answer |-> Absent,
     contexts |-> CtxAbsent]

\* the responses the passes are run on
Responses ==
    {NoSession}
    \cup {Session(PyStr(A_Text), fa, c) : fa \in FormattedAnswers, c \in FewContextValues}
    \cup {Session(PyStr(A_Text), fa, c) : fa \in FewFormattedAnswers, c \in ContextValues}
    \cup {Session(Absent, PyStr(F_Spec), CtxList(<<>>))}

\* the responses the Gateway gives the facade
GatewayReplies ==
    { NoSession,
      Session(PyStr(A_Text), PyStr(F_Spec),
              CtxList(<<Snippet(PyStr(X_EtAl), Doc(PyStr(C_Smith), PyStr(N_Smith))),
                        Snippet(PyStr(X_Year), NoDoc)>>)),
      Session(PyStr(A_Text), PyStr(F_Plain),
              CtxList(<<Snippet(PyStr(X_Plain), NoDoc)>>)) }

(***************************************************************************)
(* The facade: analyze_field and analyze_all_fields around the Gateway.    *)
(*   pc        "idle", "field_ask" (analyze_field waits for ask()),        *)
(*             "all_loop" (analyze_all_fields at the head of its loop),    *)
(*             "all_ask" (its analyze_field call waits for ask())          *)
(*   op        the facade operation called last                            *)
(*   field     field_name of the analyze_field call                        *)
(*   idx       position of the loop in the catalog, from 1                 *)
(*   results   the results dict of analyze_all_fields, in insertion order  *)
(*   askLog    the fields whose question the current operation has asked   *)
(*   askCount  the number of ask() invocations so far                      *)
(*   pending   the questions the Gateway has not answered yet              *)
(*   response  the response ask() returned                                 *)
(*   outcome   what the operation gave its caller                          *)
(***************************************************************************)
Init ==
    /\ pc = "idle"
    /\ op = "none"
    /\ field = ""
    /\ idx = 0
    /\ results = <<>>
    /\ askLog = <<>>
    /\ askCount = 0
    /\ pending = {}
    /\ response = NoSession
    /\ outcome = NoOutcome
    /\ exact_citation = Ok(<<>>)
    /\ reference = Ok(<<>>)
    /\ ref_details = Ok(<<>>)

passOut == <<exact_citation, reference, ref_details>>

\* AnalyzeFieldCall without the catalog check
AnalyzeFieldCallUnchecked(f) ==
    /\ pc = "idle"
    /\ askCount < MaxAsk
    /\ op' = "analyze_field"
    /\ field' = f
    /\ response' = NoSession
    /\ outcome' = NoOutcome
    /\ askLog' = <<f>>
    /\ askCount' = askCount + 1
    /\ pending' = pending \cup {f}
    /\ pc' = "field_ask"
    /\ UNCHANGED <<idx, results, passOut>>

\* lines 103-111 of analyze_field: the catalog check, then ask()
AnalyzeFieldCall(f) ==
    /\ pc = "idle"
    /\ askCount < MaxAsk
    /\ op' = "analyze_field"
    /\ field' = f
    /\ response' = NoSession
    /\ IF f \notin FieldNames
       THEN /\ outcome' = Escaped("ValueError")
            /\ askLog' = <<>>
            /\ UNCHANGED <<pc, askCount, pending>>
       ELSE /\ outcome' = NoOutcome
            /\ askLog' = <<f>>
            /\ askCount' = askCount + 1
            /\ pending' = pending \cup {f}
            /\ pc' = "field_ask"
    /\ UNCHANGED <<idx, results, passOut>>

\* lines 133-135 of analyze_all_fields: results = {} and the loop is entered
AnalyzeAllFieldsCall ==
    /\ pc = "idle"
    /\ askCount + Len(analysis_fields) <= MaxAsk
    /\ op' = "analyze_all_fields"
    /\ results' = <<>>
    /\ idx' = 1
    /\ askLog' = <<>>
    /\ outcome' = NoOutcome
    /\ response' = NoSession
    /\ pc' = "all_loop"
    /\ UNCHANGED <<field, askCount, pending, passOut>>

\* the catalog names in alphabetical order
SortedFields ==
    <<"Circuit sequestration", "ECMO dosage", "Effect on ECMO",
      "Final Recommendation", "PK Properties - Protein Binding",
      "PK Properties -LogP", "Volume of distribution (Vd)">>

\* AllFieldsNext iterating over sorted(self.analysis_fields)
AllFieldsNextSorted ==
    /\ pc = "all_loop"
    /\ idx <= Len(SortedFields)
    /\ field' = SortedFields[idx]
    /\ askLog' = Append(askLog, SortedFields[idx])
    /\ askCount' = askCount + 1
    /\ pending' = pending \cup {SortedFields[idx]}
    /\ pc' = "all_ask"
    /\ UNCHANGED <<op, idx, response, outcome, results, passOut>>

\* lines 135-137 with 103-111: the next field's analyze_field call reaches ask()
AllFieldsNext ==
    /\ pc = "all_loop"
    /\ idx <= Len(analysis_fields)
    /\ field' = analysis_fields[idx]
    /\ IF analysis_fields[idx] \notin FieldNames
       THEN /\ outcome' = Escaped("ValueError")
            /\ results' = <<>>
            /\ pc' = "idle"
            /\ UNCHANGED <<askLog, askCount, pending>>
       ELSE /\ askLog' = Append(askLog, analysis_fields[idx])
            /\ askCount' = askCount + 1
            /\ pending' = pending \cup {analysis_fields[idx]}
            /\ pc' = "all_ask"
            /\ UNCHANGED <<outcome, results>>
    /\ UNCHANGED <<op, idx, response, passOut>>

\* line 139: the loop is exhausted and results is returned
AllFieldsReturn ==
    /\ pc = "all_loop"
    /\ idx > Len(analysis_fields)
    /\ outcome' = [kind |-> "mapping", items |-> results]
    /\ results' = <<>>
    /\ pc' = "idle"
    /\ UNCHANGED <<op, field, idx, askLog, askCount, pending, response, passOut>>

\* lines 111-124 (and 137): ask() returns reply
GatewayReturn(reply) ==
    /\ pc \in {"field_ask", "all_ask"}
    /\ response' = reply
    /\ pending' = pending \ {field}
    /\ \E result \in {BuildResult(reply)} :
           IF result.kind # "record"
           THEN /\ outcome' = result
                /\ results' = <<>>
                /\ pc' = "idle"
                /\ UNCHANGED idx
           ELSE IF pc = "field_ask"
           THEN /\ outcome' = result
                /\ pc' = "idle"
                /\ UNCHANGED <<idx, results>>
           ELSE /\ results' = Append(results, <<field, result>>)
                /\ idx' = idx + 1
                /\ pc' = "all_loop"
                /\ UNCHANGED outcome
    /\ UNCHANGED <<op, field, askLog, askCount, passOut>>

\* GatewayFail with the loop of analyze_all_fields returning what it has
GatewayFailPartial ==
    /\ pc \in {"field_ask", "all_ask"}
    /\ pending' = pending \ {field}
    /\ outcome' = IF pc = "all_ask" THEN [kind |-> "mapping", items |-> results]
                  ELSE Escaped("GatewayError")
    /\ results' = <<>>
    /\ pc' = "idle"
    /\ UNCHANGED <<op, field, idx, askLog, askCount, response, passOut>>

\* line 111: ask() raises; nothing catches it in either operation
GatewayFail ==
    /\ pc \in {"field_ask", "all_ask"}
    /\ pending' = pending \ {field}
    /\ outcome' = Escaped("GatewayError")
    /\ results' = <<>>
    /\ pc' = "idle"
    /\ UNCHANGED <<op, field, idx, askLog, askCount, response, passOut>>

Next ==
    \/ \E f \in FieldArgs : AnalyzeFieldCall(f)
    \/ AnalyzeAllFieldsCall
    \/ AllFieldsNext
    \/ AllFieldsReturn
    \/ \E reply \in GatewayReplies : GatewayReturn(reply)
    \/ GatewayFail

Spec == Init /\ [][Next]_vars

(***************************************************************************)
(* The passes run one after the other on one response, then the record is  *)
(* assembled from it.                                                      *)
(***************************************************************************)
InitExtract ==
    /\ pc = "exact"
    /\ op = "none"
    /\ field = ""
    /\ idx = 0
    /\ results = <<>>
    /\ askLog = <<>>
    /\ askCount = 0
    /\ pending = {}
    /\ response \in Responses
    /\ outcome = NoOutcome
    /\ exact_citation = Ok(<<>>)
    /\ reference = Ok(<<>>)
    /\ ref_details = Ok(<<>>)

facade == <<op, field, idx, results, askLog, askCount, pending, response>>

RunExactCitations ==
    /\ pc = "exact"
    /\ exact_citation' = _extract_exact_citations(response)
    /\ pc' = "reference"
    /\ UNCHANGED <<facade, outcome, reference, ref_details>>

RunFormatReferences ==
    /\ pc = "reference"
    /\ reference' = _format_references(response)
    /\ pc' = "details"
    /\ UNCHANGED <<facade, outcome, exact_citation, ref_details>>

RunReferenceDetails ==
    /\ pc = "details"
    /\ ref_details' = _extract_reference_details(response)
    /\ pc' = "assemble"
    /\ UNCHANGED <<facade, outcome, exact_citation, reference>>

Assemble ==
    /\ pc = "assemble"
    /\ outcome' = BuildResult(response)
    /\ pc' = "done"
    /\ UNCHANGED <<facade, passOut>>

NextExtract ==
    \/ RunExactCitations
    \/ RunFormatReferences
    \/ RunReferenceDetails
    \/ Assemble

ExtractSpec == InitExtract /\ [][NextExtract]_vars

(***************************************************************************)
(* Definitions the properties below are stated with.                       *)
(***************************************************************************)
IsList(v) == DOMAIN v = 1..Len(v)

\* a pass gave its caller a list of strings
GaveList(r) == ~r.exc /\ IsList(r.val) /\ \A i \in DOMAIN r.val : IsList(r.val[i])

\* the response has snippets and none of the first five makes the pass fail
ReadableContexts(resp) ==
    /\ resp.has_session
    /\ resp.contexts.k = "list"
    /\ resp.contexts.v # <<>>
    /\ \A i \in 1..Min(5, Len(resp.contexts.v)) : resp.contexts.v[i].text.k # "obj"

\* the positions of the first five snippets
FirstFive(resp) == 1..Min(5, Len(resp.contexts.v))

\* the trimmed text of the i-th snippet; empty when it has no text
Trimmed(resp, i) ==
    IF resp.contexts.v[i].text.k = "str" THEN Strip(resp.contexts.v[i].text.v)
    ELSE <<>>

\* how many of the snippets 1..i have a trimmed text of more than 20 characters
KeptUpTo(resp, i) == Cardinality({j \in 1..i : Len(Trimmed(resp, j)) > 20})

\* a is b with some entries left out
RECURSIVE Embeds(_, _, _, _)
Embeds(a, i, b, j) ==
    IF i > Len(a) THEN TRUE
    ELSE IF j > Len(b) THEN FALSE
    ELSE IF a[i] = b[j] THEN Embeds(a, i + 1, b, j + 1)
    ELSE Embeds(a, i, b, j + 1)

\* the k-th smallest element of a set of numbers
KthSmallest(S, k) == CHOOSE x \in S : Cardinality({y \in S : y < x}) = k - 1

S_SomeCitation ==
    <<"S", "o", "m", "e", " ", "C", "i", "t", "a", "t", "i", "o", "n">>


\* the text of a numbered line after its first colon, trimmed; the whole
\* line when it has no colon
AfterColon(s) ==
    LET colons == {i \in 1..Len(s) : s[i] = ":"}
    IN  IF colons = {} THEN s
        ELSE Strip(SubSeq(s, KthSmallest(colons, 1) + 1, Len(s)))

\* the references the numbered lines after a References line stand for
NumberedReferences(formatted_answer) ==
    LET lines == SplitLines(formatted_answer)
        trimmed == [i \in 1..Len(lines) |-> Strip(lines[i])]
        headers == {i \in 1..Len(lines) : StartsWith(trimmed[i], S_References)}
        numbered == {i \in 1..Len(lines) :
                        /\ \E h \in headers : h < i
                        /\ Len(trimmed[i]) >= 2
                        /\ trimmed[i][1] \in {"1", "2", "3", "4", "5"}
                        /\ trimmed[i][2] = "."}
    IN  [k \in 1..Min(5, Cardinality(numbered)) |->
            AfterColon(trimmed[KthSmallest(numbered, k)])]

(***************************************************************************)
(* The claims.                                                             *)
(***************************************************************************)

\* C1: each of the three passes gives a list of strings for every response
\* shape and no exception leaves it, so a record that analyze_field returns
\* has exactly the metadata keys exact_citation, reference and ref_details,
\* each a list; the only exception that leaves the assembly of the record is
\* the AttributeError of reading the session, the answer or the formatted
\* answer at lines 115-116, before the passes run.
C1_PassesFailSoft ==
    /\ pc \in {"reference", "details", "assemble", "done"} => GaveList(exact_citation)
    /\ pc \in {"details", "assemble", "done"} => GaveList(reference)
    /\ pc \in {"assemble", "done"} => GaveList(ref_details)
    /\ pc = "done" =>
          /\ outcome.kind \in {"record", "AttributeError"}
          /\ outcome.kind = "record" =>
                /\ DOMAIN outcome.metadata = {"exact_citation", "reference", "ref_details"}
                /\ outcome.metadata.exact_citation = exact_citation.val
                /\ outcome.metadata.reference = reference.val
                /\ outcome.metadata.ref_details = ref_details.val

\* C1 witness: a record was returned for a response whose formatted_answer is
\* not a string, so the reference pass failed inside and gave its fallback.
C1_Witness ==
    /\ pc = "done"
    /\ outcome.kind = "record"
    /\ response.formatted_answer.k = "obj"
    /\ FormatReferencesBody(response).exc
    /\ outcome.metadata.reference = <<S_NoReferences>>

\* C2: in every record analyze_field returns, exact_citation, reference and
\* ref_details have the same length.
C2_SameLength ==
    outcome.kind = "record" =>
        /\ Len(outcome.metadata.exact_citation) = Len(outcome.metadata.reference)
        /\ Len(outcome.metadata.reference) = Len(outcome.metadata.ref_details)

\* C3: a call of analyze_field with a field name that is not in the catalog
\* ends in that step with ValueError: no ask() is invoked (the count and the
\* questions in flight are unchanged) and no record is produced.
C3_UnknownFieldFailsBeforeGateway ==
    [][(pc = "idle" /\ op' = "analyze_field" /\ field' \notin FieldNames)
         => /\ outcome'.kind = "ValueError"
            /\ askCount' = askCount
            /\ askLog' = <<>>
            /\ pending' = pending
            /\ pending' = {}
            /\ pc' = "idle"]_vars

\* C3 witness: an unknown field was refused after the Gateway had been used.
C3_Witness ==
    /\ outcome.kind = "ValueError"
    /\ op = "analyze_field"
    /\ field \notin FieldNames
    /\ askCount > 0
    /\ pc = "idle"

\* C4: analyze_all_fields asks the Gateway once per catalog field, in catalog
\* order and one at a time: the k-th question is asked when exactly k-1
\* results are recorded, at most one question is in flight, and the mapping
\* it returns comes after seven calls and has the seven catalog names as its
\* keys, in catalog order.
C4_OneCallPerFieldInOrder ==
    op = "analyze_all_fields" =>
        /\ Len(askLog) <= Len(analysis_fields)
        /\ \A i \in 1..Len(askLog) : askLog[i] = analysis_fields[i]
        /\ Cardinality(pending) <= 1
        /\ \A i \in 1..Len(results) : results[i][1] = analysis_fields[i]
        /\ pc = "all_ask" =>
              /\ Len(askLog) = Len(results) + 1
              /\ pending = {askLog[Len(askLog)]}
        /\ pc = "all_loop" =>
              /\ Len(askLog) = Len(results)
              /\ idx = Len(results) + 1
              /\ pending = {}
        /\ outcome.kind = "mapping" =>
              /\ pc = "idle"
              /\ Len(askLog) = Len(analysis_fields)
              /\ [i \in 1..Len(outcome.items) |-> outcome.items[i][1]] = analysis_fields
              /\ \A i \in 1..Len(outcome.items) : outcome.items[i][2].kind = "record"

\* C4 witness: a batch returned its mapping, with records of different
\* responses in it.
C4_Witness ==
    /\ op = "analyze_all_fields"
    /\ outcome.kind = "mapping"
    /\ Len(outcome.items) = 7
    /\ outcome.items[1][2] # outcome.items[7][2]

\* C5: a failure of ask() ends the operation in that step with that failure
\* and nothing else: no further ask() is made, the results recorded so far
\* are dropped; analyze_field never asks more than once, and a mapping that
\* is returned always holds all seven fields.
C5_GatewayFailurePropagates ==
    [][/\ (pc \in {"field_ask", "all_ask"} /\ outcome'.kind = "GatewayError")
           => /\ pc' = "idle"
              /\ askCount' = askCount
              /\ askLog' = askLog
              /\ results' = <<>>
              /\ pending' = {}
       /\ op' = "analyze_field" => Len(askLog') <= 1
       /\ outcome'.kind = "mapping" => Len(outcome'.items) = Len(analysis_fields)
       /\ outcome'.kind \in {"GatewayError", "AttributeError"} => pc' = "idle"]_vars

\* C5 witness: the Gateway failed on a later field of a batch, after results
\* had been recorded, and the caller got the failure.
C5_Witness ==
    /\ op = "analyze_all_fields"
    /\ outcome.kind = "GatewayError"
    /\ Len(askLog) = 3
    /\ pc = "idle"
    /\ results = <<>>

\* C6: the exact_citation pass returns at most 5 entries, and they are the
\* quotes of some of the first 5 snippets, in the order of the snippets.
C6_AtMostFiveFromFirstFive ==
    (pc = "done" /\ ReadableContexts(response)) =>
        \A quotes \in {[i \in FirstFive(response) |->
                           ExactQuote(response.contexts.v[i].text.v)]} :
            /\ Len(exact_citation.val) <= 5
            /\ Embeds(exact_citation.val, 1, quotes, 1)

\* C6 witness: six snippets, one of the first five discarded, so that four
\* quotes are returned although the sixth snippet has a substantial text.
C6_Witness ==
    /\ pc = "done"
    /\ ReadableContexts(response)
    /\ Len(response.contexts.v) = 6
    /\ Len(Trimmed(response, 6)) > 20
    /\ Len(exact_citation.val) = 4

\* C7: a snippet among the first five whose trimmed text is longer than 300
\* characters gives the text up to and including the first period at an
\* offset from 250 up to, not including, 350, or, without such a period, its
\* first 300 characters followed by "...".
C7_LongQuoteTruncated ==
    (pc = "done" /\ ReadableContexts(response)) =>
        \A i \in FirstFive(response) :
            \A q \in {Trimmed(response, i)} :
                Len(q) > 300 =>
                    LET periods == {o \in 250..349 : o < Len(q) /\ q[o + 1] = "."}
                        quote == exact_citation.val[KeptUpTo(response, i)]
                    IN  IF periods = {}
                        THEN quote = SubSeq(q, 1, 300) \o <<".", ".", ".">>
                        ELSE /\ quote = SubSeq(q, 1, KthSmallest(periods, 1) + 1)
                             /\ quote[Len(quote)] = "."

\* C7 witness: a 350-character snippet with its only period at offset 300 is
\* cut to 301 characters, and a 350-character snippet without a period is cut
\* to 300 characters and "...".
C7_Witness ==
    /\ pc = "done"
    /\ ReadableContexts(response)
    /\ Len(response.contexts.v) = 2
    /\ response.contexts.v[1].text.v = Text(350, {300})
    /\ response.contexts.v[2].text.v = Text(350, {})
    /\ exact_citation.val = <<Text(301, {300}), Text(300, {}) \o <<".", ".", ".">>>>

\* C8: a snippet among the first five whose trimmed text has at most 300
\* characters gives exactly that trimmed text when it is longer than 20 and
\* nothing otherwise; no returned quote has fewer than 21 characters.
C8_ShortQuoteKeptOrOmitted ==
    (pc = "done" /\ ReadableContexts(response)) =>
        /\ \A j \in 1..Len(exact_citation.val) : Len(exact_citation.val[j]) >= 21
        /\ Len(exact_citation.val) = KeptUpTo(response, Min(5, Len(response.contexts.v)))
        /\ \A i \in FirstFive(response) :
               \A q \in {Trimmed(response, i)} :
                   (Len(q) > 20 /\ Len(q) <= 300)
                       => exact_citation.val[KeptUpTo(response, i)] = q

\* C8 witness: a snippet of exactly 20 characters is omitted and the one
\* after it is returned as it is.
C8_Witness ==
    /\ pc = "done"
    /\ ReadableContexts(response)
    /\ Len(response.contexts.v) = 2
    /\ Len(Trimmed(response, 1)) = 20
    /\ exact_citation.val = <<response.contexts.v[2].text.v>>

\* C9: when the formatted answer has numbered lines "1." to "5." after a
\* line that starts with "References", the reference pass returns the first
\* five of them in order, each reduced to the trimmed text after its first
\* colon (whole without a colon), whatever the snippets are; "References"
\* then "1. Smith et al: Some Citation" gives ["Some Citation"].
C9_NumberedReferencesWin ==
    (pc = "done" /\ response.has_session /\ response.formatted_answer.k = "str") =>
        \A expected \in {NumberedReferences(response.formatted_answer.v)} :
            /\ expected # <<>> => reference.val = expected
            /\ response.formatted_answer.v = F_Spec => expected = <<S_SomeCitation>>

\* C9 witness: the formatted answer of the example, with snippets whose
\* source documents have citations of their own.
C9_Witness ==
    /\ pc = "done"
    /\ response.formatted_answer = PyStr(F_Spec)
    /\ response.contexts.k = "list"
    /\ Len(response.contexts.v) = 2
    /\ response.contexts.v[1].doc.k = "doc"
    /\ response.contexts.v[1].doc.citation = PyStr(C_Smith)
    /\ reference.val = <<S_SomeCitation>>

\* C10: the reference pass never returns an empty list: when neither the
\* numbered lines nor the snippets give a reference it returns its
\* one-element fallback.
C10_ReferenceNeverEmpty ==
    pc = "done" =>
        /\ reference.val # <<>>
        /\ (response.has_session /\ FormatReferencesBody(response).val = <<>>)
               => reference.val = <<S_NoReferences>>

\* the detail string of the example of C11
S_ExampleDetail ==
    <<"R", "a", "n", "d", "o", "m", "i", "z", "e", "d", " ", "c", "o", "n",
      "t", "r", "o", "l", "l", "e", "d", " ", "t", "r", "i", "a", "l", " ",
      "o", "n", " ", "p", "e", "d", "i", "a", "t", "r", "i", "c", " ", "E",
      "C", "M", "O", " ", "p", "a", "t", "i", "e", "n", "t", "s", ".", " ",
      "Q", "u", "a", "l", "i", "t", "y", ":", " ", "h", "i", "g", "h", "-",
      "q", "u", "a", "l", "i", "t", "y", " ", "R", "C", "T", ".", " ", "E",
      "v", "i", "d", "e", "n", "c", "e", ":", " ", "m", "u", "l", "t", "i",
      "p", "l", "e", " ", "c", "i", "t", "a", "t", "i", "o", "n", "s", " ",
      "f", "r", "o", "m", " ", "t", "h", "i", "s", " ", "s", "o", "u", "r",
      "c", "e", ".">>

\* the study-type rules in their order: keywords, study type, quality
StudyRules ==
    << <<{K_randomized, K_rct}, T_RCT, Q_RCT>>,
       <<{K_prospective, K_cohort}, T_Prospective, Q_Prospective>>,
       <<{K_case_report, K_case_series}, T_Case, Q_Case>>,
       <<{K_review}, T_Review, Q_Review>>,
       <<{K_guideline}, T_Guideline, Q_Guideline>>,
       <<{K_pharmacokinetics}, T_PK, Q_PK>> >>

\* the population rules in their order: keywords, population
PopulationRules ==
    << <<{K_pediatric, K_children}, P_Pediatric>>, <<{K_adult}, P_Adult>> >>

\* the positions of the rules that have a keyword in the string s
Matching(rules, s) ==
    {k \in 1..Len(rules) : \E w \in rules[k][1] : Contains(s, w)}

\* the first rule of rules with a keyword in s, or the default
FirstRule(rules, s, default) ==
    Eager(Matching(rules, s),
          LAMBDA hit : IF hit = {} THEN default
                       ELSE rules[CHOOSE k \in hit : \A o \in hit : k <= o])

\* the description the rules give the reference ref at 0-based index i
RuleDetail(i, ref) ==
    Eager(Lower(ref),
          LAMBDA low :
              Eager(FirstRule(StudyRules, low, <<{}, T_Default, Q_Default>>),
                    LAMBDA study :
                        study[2] \o <<" ", "o", "n", " ">>
                        \o FirstRule(PopulationRules, low, <<{}, P_Default>>)[2]
                        \o <<".", " ", "Q", "u", "a", "l", "i", "t", "y", ":", " ">>
                        \o study[3]
                        \o <<".", " ", "E", "v", "i", "d", "e", "n", "c", "e", ":", " ">>
                        \o (IF i < 3 THEN S_MultipleCitations ELSE S_SingleCitation)
                        \o <<" ", "f", "r", "o", "m", " ", "t", "h", "i", "s", " ", "s",
                             "o", "u", "r", "c", "e", ".">>))

\* C11: the description of the reference at index i is "{study_type} on
\* {population}. Quality: {quality}. Evidence: {citations_used} from this
\* source.", with the study type and quality of the first study rule that has
\* a keyword in the lower-cased reference (else the default), the population
\* of the first population rule that has one (else ECMO patients), and
\* "multiple citations" for i < 3, "single citation" otherwise; a reference
\* with "Randomized", "review" and "pediatric" at index 0 is described as a
\* randomized controlled trial on pediatric ECMO patients, multiple citations.
C11_DetailFollowsRules ==
    pc = "done" =>
        /\ Len(ref_details.val) = Len(reference.val)
        /\ \A i \in 1..Len(reference.val) :
               /\ ref_details.val[i] = RuleDetail(i - 1, reference.val[i])
               /\ (i = 1 /\ reference.val[i] = C_Smith)
                      => ref_details.val[i] = S_ExampleDetail

\* C11 witness: five references were described, the first being the one of
\* the example, the fourth and fifth with "single citation".
C11_Witness ==
    /\ pc = "done"
    /\ Len(reference.val) = 5
    /\ reference.val[1] = C_Smith
    /\ ref_details.val[1] = S_ExampleDetail
    /\ Contains(ref_details.val[3], S_MultipleCitations)
    /\ Contains(ref_details.val[4], S_SingleCitation)

\* what a snippet yields in the second tier: the citation string of its
\* source document if it has one, else the citation synthesized from its
\* text when the heuristic finds "et al." or "20", else the empty string
SnippetYield(context) ==
    IF /\ context.doc.k = "doc"
       /\ HasAttr(context.doc.citation)
       /\ Str(context.doc.citation) # <<>>
    THEN Str(context.doc.citation)
    ELSE IF /\ context.text.k = "str"
            /\ \E w \in {S_EtAl, S_Twenty} : Contains(Prefix(context.text.v, 100), w)
    THEN S_ExtractedFrom \o Prefix(context.text.v, 80) \o S_Ellipsis
    ELSE <<>>

\* the source a snippet stands for: the name of its source document, or the
\* citation text when it has no such name
SnippetSource(context) ==
    IF context.doc.k = "doc" /\ context.doc.docname.k = "str"
    THEN <<"name", context.doc.docname.v>>
    ELSE <<"text", SnippetYield(context)>>

\* the snippets of ctxs that contribute: those that yield a citation and are
\* the first of their source to do so
Contributing(ctxs) ==
    {i \in 1..Len(ctxs) :
        /\ SnippetYield(ctxs[i]) # <<>>
        /\ \A j \in 1..(i - 1) :
               SnippetYield(ctxs[j]) # <<>> => SnippetSource(ctxs[j]) # SnippetSource(ctxs[i])}

\* the references the snippets ctxs stand for, in context order
SourcesOnce(ctxs) ==
    Eager(Contributing(ctxs),
          LAMBDA kept : [k \in 1..Min(5, Cardinality(kept)) |->
                            SnippetYield(ctxs[KthSmallest(kept, k)])])

\* the second tier is reached and reads its snippets without an error
Tier2Reached(resp) ==
    /\ ReadableContexts(resp)
    /\ \A i \in FirstFive(resp) : resp.contexts.v[i].text.k \in {"str", "absent"}
    /\ \/ ~HasAttr(resp.formatted_answer)
       \/ ~Truthy(resp.formatted_answer)
       \/ /\ resp.formatted_answer.k = "str"
          /\ NumberedReferences(resp.formatted_answer.v) = <<>>

\* C13: in the second tier the reference pass scans the first 5 snippets;
\* each yields the citation string of its source document if it has one,
\* else the citation synthesized from the first 80 characters of its text
\* when its first 100 characters contain "et al." or "20", else nothing; no
\* source is listed twice (of the snippets that share a document name, or
\* have no name and share the citation text, only the first contributes);
\* at most 5 references are returned, in context order.
C13_Tier2NoSourceTwice ==
    (pc = "done" /\ Tier2Reached(response)) =>
        /\ Len(reference.val) <= 5
        /\ reference.val = SourcesOnce(Prefix(response.contexts.v, 5))

\* C13 where the snippets are listed twice: the sources of the synthesized
\* citations are left out of the statement
C13_ExceptSynthesized ==
    (/\ pc = "done"
     /\ Tier2Reached(response)
     /\ \A i \in FirstFive(response) :
            StartsWith(SnippetYield(response.contexts.v[i]), S_ExtractedFrom)
                => \A j \in FirstFive(response) :
                       j # i => SnippetSource(response.contexts.v[j])
                                    # SnippetSource(response.contexts.v[i]))
        => reference.val = SourcesOnce(Prefix(response.contexts.v, 5))

\* C14: ref_details is derived from the list the reference pass returns for
\* the same response: it has the same length, its i-th entry describes the
\* i-th reference, also when the reference pass returns its placeholder or
\* the empty list, and it has at most 5 entries.
C14_DetailsMirrorReferences ==
    pc = "done" =>
        /\ Len(ref_details.val) = Len(reference.val)
        /\ Len(ref_details.val) <= 5
        /\ \A i \in 1..Len(reference.val) :
               ref_details.val[i] = Detail(i - 1, reference.val[i])
        /\ reference.val = <<S_NoReferences>>
               => ref_details.val = <<Detail(0, S_NoReferences)>>
        /\ reference.val = <<>> => ref_details.val = <<>>

\* C14 witness: the reference pass returned the empty list for a response
\* with snippets, and ref_details is empty as well.
C14_Witness ==
    /\ pc = "done"
    /\ response.contexts.k = "list"
    /\ response.contexts.v # <<>>
    /\ reference.val = <<>>
    /\ ref_details.val = <<>>

\* the response has no snippets: the attribute is absent or None, or the
\* sequence is empty
NoContexts(resp) ==
    /\ resp.has_session
    /\ \/ resp.contexts.k \in {"absent", "none"}
       \/ resp.contexts.k = "list" /\ resp.contexts.v = <<>>

\* the exact-citation pass meets an error: the response has no session, its
\* contexts cannot be sliced, or one of the first five texts is not a string
ErrorInExactCitations(resp) ==
    \/ ~resp.has_session
    \/ resp.contexts.k = "obj"
    \/ /\ resp.contexts.k = "list"
       /\ \E i \in FirstFive(resp) : resp.contexts.v[i].text.k = "obj"

\* C15: the exact-citation pass returns its one-element fallback exactly when
\* the response has no snippets or an error occurs inside the pass; when
\* snippets are present and no error occurs it returns the surviving quotes
\* themselves, which is the empty list, not the fallback, when every one of
\* the first 5 snippets is empty or gives a quote of at most 20 characters.
C15_FallbackOnlyWithoutContexts ==
    pc = "done" =>
        IF NoContexts(response) \/ ErrorInExactCitations(response)
        THEN exact_citation.val = <<S_NoQuotes>>
        ELSE /\ Len(exact_citation.val)
                    = KeptUpTo(response, Min(5, Len(response.contexts.v)))
             /\ \A i \in FirstFive(response) :
                    Len(Trimmed(response, i)) > 20
                        => Prefix(exact_citation.val[KeptUpTo(response, i)], 250)
                               = Prefix(Trimmed(response, i), 250)
             /\ (\A i \in FirstFive(response) : Len(Trimmed(response, i)) <= 20)
                    => exact_citation.val = <<>>

\* C15 witness: two snippets, one without characters and one of exactly 20,
\* and the pass returned the empty list.
C15_Witness ==
    /\ pc = "done"
    /\ response.contexts.k = "list"
    /\ Len(response.contexts.v) = 2
    /\ \E i, j \in 1..2 :
           /\ response.contexts.v[i].text.k = "none"
           /\ response.contexts.v[j].text.k = "str"
           /\ Len(response.contexts.v[j].text.v) = 20
    /\ exact_citation.val = <<>>

====
